---- MODULE Spec2Model ----
(***************************************************************************)
(* The IfElif conditional chain (IfElif, IfElifResult, ElseResult and the  *)
(* entry point _if) as a state machine.  A caller builds one chain, call   *)
(* by call; every method is translated from its body.  Chain objects live  *)
(* in a heap so that object identity ("returns this") and mutation are     *)
(* observable.                                                             *)
(***************************************************************************)
EXTENDS Integers, Sequences, FiniteSets, TLC

\* Bound: number of method calls made on one chain after _if(...).
MaxCalls == 4

\* Bound: number of method calls in the two-continuation specification.
MaxForkCalls == 5

(***************************************************************************)
(* JavaScript values.  k is the type tag, v the payload, id the identity   *)
(* of an object (heap index) or of a function (the call site that created  *)
(* the closure; 0 for a function returned by another function).            *)
(***************************************************************************)
Undefined == [k |-> "undefined", v |-> "", id |-> 0]
Null == [k |-> "null", v |-> "", id |-> 0]
True == [k |-> "bool", v |-> "true", id |-> 0]
False == [k |-> "bool", v |-> "false", id |-> 0]
Zero == [k |-> "num", v |-> "0", id |-> 0]
Str(s) == [k |-> "str", v |-> s, id |-> 0]
Fn(name, site) == [k |-> "fn", v |-> name, id |-> site]
Ref(i) == [k |-> "obj", v |-> "", id |-> i]

\* The caller's producers: what each zero-argument function returns.
\*   pa: () => 'a'
\*   pu: () => console.log(..)   (returns undefined)
\*   pf: () => (() => 'a')
\*   pt: () => { throw .. }
\*   pft: () => (() => { throw .. })
FnNames == {"pa", "pu", "pf"}
FnBody(name) ==
  CASE name = "pa" -> Str("a")
    [] name = "pu" -> Undefined
    [] name = "pf" -> Fn("pa", 0)
    [] name = "pt" -> Undefined
    [] name = "pft" -> Fn("pt", 0)

\* The producers that fail, and the failure the function f throws.
Throws(name) == name = "pt"
Failure(f) == [k |-> "error", v |-> f.v, id |-> f.id]

\* `x ? .. : ..` and `x || ..` : JavaScript truthiness.
Truthy(x) ==
  CASE x.k = "undefined" -> FALSE
    [] x.k = "null" -> FALSE
    [] x.k = "bool" -> x.v = "true"
    [] x.k = "num" -> x.v # "0"
    [] x.k = "str" -> x.v # ""
    [] OTHER -> TRUE

\* `x instanceof Function`
IsFunction(x) == x.k = "fn"

\* Conditions and outcomes the caller passes; site is the position of the call.
Conds == {True, False, Zero}
Plain == {Null, Zero, Str("a"), Str("b")}
Outcomes(site) == Plain \cup {Fn(n, site) : n \in FnNames}

(***************************************************************************)
(* The result of evaluating a constructor or a method: the heap and the    *)
(* log of producer invocations after it, and the value it returns.         *)
(***************************************************************************)
Outcome(h, cs, ret) == [heap |-> h, calls |-> cs, ret |-> ret, thrown |-> FALSE]

\* The call did not return: it threw err.
Thrown(h, cs, err) == [heap |-> h, calls |-> cs, ret |-> err, thrown |-> TRUE]

\* Variant: a failure of the producer caught, the result left undefined.
Resolve_Swallow(cs, result) ==
  IF IsFunction(result)
    THEN [calls |-> Append(cs, result),
          val |-> IF Throws(result.v) THEN Undefined ELSE FnBody(result.v),
          thrown |-> FALSE]
    ELSE [calls |-> cs, val |-> result, thrown |-> FALSE]

\* `result instanceof Function ? result() : result`, logging the invocation.
Resolve(cs, result) ==
  IF IsFunction(result)
    THEN [calls |-> Append(cs, result),
          val |-> IF Throws(result.v) THEN Failure(result) ELSE FnBody(result.v),
          thrown |-> Throws(result.v)]
    ELSE [calls |-> cs, val |-> result, thrown |-> FALSE]

\* class IfElif { constructor(condition) { this.condition = condition } }
IfElif_constructor(h, cs, condition) ==
  Outcome(Append(h, [cls |-> "IfElif", condition |-> condition, result |-> Undefined]),
          cs, Ref(Len(h) + 1))

\* class IfElifResult { constructor(result) {...} }
IfElifResult_constructor(h, cs, result) ==
  LET r == Resolve(cs, result) IN
  IF r.thrown THEN Thrown(h, r.calls, r.val)
  ELSE Outcome(Append(h, [cls |-> "IfElifResult", condition |-> Undefined, result |-> r.val]),
               r.calls, Ref(Len(h) + 1))

\* class ElseResult { constructor(result) {...} }
ElseResult_constructor(h, cs, result) ==
  LET r == Resolve(cs, result) IN
  IF r.thrown THEN Thrown(h, r.calls, r.val)
  ELSE Outcome(Append(h, [cls |-> "ElseResult", condition |-> Undefined, result |-> r.val]),
               r.calls, Ref(Len(h) + 1))

\* function _if(condition) { return new IfElif(condition) }
If(h, cs, condition) == IfElif_constructor(h, cs, condition)

\* Variant: then on a falsy condition returning a copy instead of this.
IfElif_then_Copy(h, cs, this, yes) ==
  IF Truthy(h[this].condition)
    THEN IfElifResult_constructor(h, cs, yes)
    ELSE IfElif_constructor(h, cs, h[this].condition)

\* IfElif.then(yes)
IfElif_then(h, cs, this, yes) ==
  IF Truthy(h[this].condition)
    THEN IfElifResult_constructor(h, cs, yes)
    ELSE Outcome(h, cs, Ref(this))

\* Variant: elif reusing the chain object for the next test.
IfElif_elif_Reuse(h, cs, this, condition) ==
  Outcome([h EXCEPT ![this].condition = condition], cs, Ref(this))

\* IfElif.elif(condition)
IfElif_elif(h, cs, this, condition) == IfElif_constructor(h, cs, condition)

\* Variant: elseIf keeping the chain instead of opening a new test.
IfElif_elseIf_Self(h, cs, this, condition) == Outcome(h, cs, Ref(this))

\* Variant: elseIf keeping a chain whose condition is truthy.
IfElif_elseIf_KeepTruthy(h, cs, this, condition) ==
  IF Truthy(h[this].condition)
    THEN Outcome(h, cs, Ref(this))
    ELSE IfElif_constructor(h, cs, condition)

\* IfElif.elseIf(condition)
IfElif_elseIf(h, cs, this, condition) == IfElif_constructor(h, cs, condition)

\* IfElif.else(no)
IfElif_else(h, cs, this, no) ==
  IF no # Undefined
    THEN IF Truthy(h[this].condition)
           THEN Outcome(h, cs, Ref(this))
           ELSE LET r == Resolve(cs, no)
                IN IF r.thrown THEN Thrown(h, r.calls, r.val) ELSE Outcome(h, r.calls, r.val)
    ELSE ElseResult_constructor(h, cs, Undefined)

\* Variant: end() of an unresolved chain returning nothing (`return;`).
IfElif_end_Undefined(h, cs, this) == Outcome(h, cs, Undefined)

\* IfElif.end()
IfElif_end(h, cs, this) == Outcome(h, cs, Null)

\* IfElifResult.then()
IfElifResult_then(h, cs, this, yes) == Outcome(h, cs, Ref(this))

\* Variant: elif on a resolved chain opening a new test instead of passing through.
IfElifResult_elif_Reopen(h, cs, this, condition) == IfElif_constructor(h, cs, condition)

\* IfElifResult.elif()
IfElifResult_elif(h, cs, this, condition) == Outcome(h, cs, Ref(this))

\* IfElifResult.elseIf()
IfElifResult_elseIf(h, cs, this, condition) == Outcome(h, cs, Ref(this))

\* IfElifResult.else(no)
IfElifResult_else(h, cs, this, no) ==
  IF no # Undefined
    THEN Outcome(h, cs, h[this].result)
    ELSE ElseResult_constructor(h, cs, h[this].result)

\* Variant: `return this.result || null`.
IfElifResult_end_OrNull(h, cs, this) ==
  Outcome(h, cs, IF Truthy(h[this].result) THEN h[this].result ELSE Null)

\* IfElifResult.end()
IfElifResult_end(h, cs, this) == Outcome(h, cs, h[this].result)

\* ElseResult.then(result): `this.result || result`
ElseResult_then(h, cs, this, result) ==
  Outcome(h, cs, IF Truthy(h[this].result) THEN h[this].result ELSE result)

\* ElseResult.end()
ElseResult_end(h, cs, this) == Outcome(h, cs, h[this].result)

\* Calling a method the receiver's class does not define throws a TypeError.
TypeError(h, cs) == Thrown(h, cs, [k |-> "error", v |-> "TypeError", id |-> 0])

\* Method lookup on the receiver's class, then the call.
Dispatch(h, cs, this, op, arg) ==
  LET cls == h[this].cls
      ok(r) == r
  IN CASE cls = "IfElif" /\ op = "then" -> ok(IfElif_then(h, cs, this, arg))
       [] cls = "IfElif" /\ op = "elif" -> ok(IfElif_elif(h, cs, this, arg))
       [] cls = "IfElif" /\ op = "elseIf" -> ok(IfElif_elseIf(h, cs, this, arg))
       [] cls = "IfElif" /\ op = "else" -> ok(IfElif_else(h, cs, this, arg))
       [] cls = "IfElif" /\ op = "end" -> ok(IfElif_end(h, cs, this))
       [] cls = "IfElifResult" /\ op = "then" -> ok(IfElifResult_then(h, cs, this, arg))
       [] cls = "IfElifResult" /\ op = "elif" -> ok(IfElifResult_elif(h, cs, this, arg))
       [] cls = "IfElifResult" /\ op = "elseIf" -> ok(IfElifResult_elseIf(h, cs, this, arg))
       [] cls = "IfElifResult" /\ op = "else" -> ok(IfElifResult_else(h, cs, this, arg))
       [] cls = "IfElifResult" /\ op = "end" -> ok(IfElifResult_end(h, cs, this))
       [] cls = "ElseResult" /\ op = "then" -> ok(ElseResult_then(h, cs, this, arg))
       [] cls = "ElseResult" /\ op = "end" -> ok(ElseResult_end(h, cs, this))
       [] OTHER -> TypeError(h, cs)

(***************************************************************************)
(* State: the heap of chain objects, the log of producer invocations, the  *)
(* value the last call returned (cur), the calls made so far on this chain *)
(* (trace), where the caller stands (pc), and a chain object the caller    *)
(* kept a reference to together with the calls that produced it (kept).    *)
(***************************************************************************)
VARIABLES heap, calls, cur, trace, pc, kept

vars == <<heap, calls, cur, trace, pc, kept>>

NoKept == [val |-> Undefined, trace |-> <<>>, pc |-> "start"]

Call(op, arg) == [op |-> op, arg |-> arg]

Init ==
  /\ heap = <<>>
  /\ calls = <<>>
  /\ cur = Undefined
  /\ trace = <<>>
  /\ pc = "start"
  /\ kept = NoKept

\* What the caller holds after a call returned r.
Returned(r, op, arg) ==
  /\ heap' = r.heap
  /\ calls' = r.calls
  /\ cur' = r.ret
  /\ trace' = Append(trace, Call(op, arg))
  /\ pc' = IF r.thrown THEN "error" ELSE IF r.ret.k = "obj" THEN "chain" ELSE "value"
  /\ UNCHANGED kept

\* _if(condition)
CallIf(condition) ==
  /\ pc = "start"
  /\ Returned(If(heap, calls, condition), "_if", condition)

\* max bounds the calls of the chain plus those of the kept one.
Method(op, arg, max) ==
  /\ pc = "chain"
  /\ Len(trace) + Len(kept.trace) <= max
  /\ Returned(Dispatch(heap, calls, cur.id, op, arg), op, arg)

\* .then(yes)
CallThen(yes, max) == Method("then", yes, max)

\* .elif(condition)
CallElif(condition, max) == Method("elif", condition, max)

\* .elseIf(condition)
CallElseIf(condition, max) == Method("elseIf", condition, max)

\* .else(no); .else() is the call with no = undefined
CallElse(no, max) == Method("else", no, max)

\* .end()
CallEnd(max) == Method("end", Undefined, max)

Next ==
  \/ \E c \in Conds : CallIf(c)
  \/ \E o \in Outcomes(Len(trace)) : CallThen(o, MaxCalls)
  \/ \E c \in Conds : CallElif(c, MaxCalls)
  \/ \E c \in Conds : CallElseIf(c, MaxCalls)
  \/ \E o \in Outcomes(Len(trace)) \cup {Undefined} : CallElse(o, MaxCalls)
  \/ CallEnd(MaxCalls)

Spec == Init /\ [][Next]_vars

(***************************************************************************)
(* Two continuations of one chain object: the caller keeps the chain value *)
(* it has (const c = _if(..)...), goes on with one continuation, and may   *)
(* switch to the other at any point.                                       *)
(***************************************************************************)
ForkConds == {True, False}
ForkOutcomes(site) == {Str("a"), Fn("pa", site)}

\* const c = <the chain so far>
Keep ==
  /\ pc = "chain"
  /\ kept = NoKept
  /\ kept' = [val |-> cur, trace |-> trace, pc |-> pc]
  /\ UNCHANGED <<heap, calls, cur, trace, pc>>

\* Go on with the other continuation.
Resume ==
  /\ kept # NoKept
  /\ cur' = kept.val
  /\ trace' = kept.trace
  /\ pc' = kept.pc
  /\ kept' = [val |-> cur, trace |-> trace, pc |-> pc]
  /\ UNCHANGED <<heap, calls>>

NextFork ==
  \/ \E c \in ForkConds : CallIf(c)
  \/ \E o \in ForkOutcomes(Len(trace)) : CallThen(o, MaxForkCalls)
  \/ \E c \in ForkConds : CallElif(c, MaxForkCalls)
  \/ \E c \in ForkConds : CallElseIf(c, MaxForkCalls)
  \/ \E o \in ForkOutcomes(Len(trace)) \cup {Undefined} : CallElse(o, MaxForkCalls)
  \/ CallEnd(MaxForkCalls)
  \/ Keep
  \/ Resume

SpecFork == Init /\ [][NextFork]_vars

(***************************************************************************)
(* Chains whose producers may fail.                                        *)
(***************************************************************************)
ThrowConds == {True, False}
ThrowOutcomes(site) == {Str("a")} \cup {Fn(n, site) : n \in {"pa", "pt", "pft"}}

NextThrow ==
  \/ \E c \in ThrowConds : CallIf(c)
  \/ \E o \in ThrowOutcomes(Len(trace)) : CallThen(o, MaxCalls)
  \/ \E c \in ThrowConds : CallElif(c, MaxCalls)
  \/ \E c \in ThrowConds : CallElseIf(c, MaxCalls)
  \/ \E o \in ThrowOutcomes(Len(trace)) \cup {Undefined} : CallElse(o, MaxCalls)
  \/ CallEnd(MaxCalls)

SpecThrow == Init /\ [][NextThrow]_vars

(***************************************************************************)
(* Reading a chain off the trace.  A chain body of m calls is              *)
(*   _if(c1).then(o1).elif(c2).then(o2) ... .elif(cn).then(on),  m = 2n.   *)
(***************************************************************************)
ChainBody(t, m) ==
  /\ m >= 2
  /\ m % 2 = 0
  /\ m <= Len(t)
  /\ \A j \in 1..m :
       t[j].op \in (IF j = 1 THEN {"_if"}
                    ELSE IF j % 2 = 1 THEN {"elif", "elseIf"} ELSE {"then"})

CondAt(t, i) == t[2 * i - 1].arg
OutAt(t, i) == t[2 * i].arg

\* Index of the first truthy condition among the m \div 2 branches, 0 if none.
FirstTruthy(t, m) ==
  LET S == {i \in 1..(m \div 2) : Truthy(CondAt(t, i))}
  IN IF S = {} THEN 0 ELSE CHOOSE i \in S : \A j \in S : i <= j

\* The value an outcome stands for: itself, or what the producer returns.
Expected(o) == IF IsFunction(o) THEN FnBody(o.v) ELSE o

\* The chain ends with end() or with else(x), x given.
EndsWithEnd(t) == t[Len(t)].op = "end"
EndsWithElseOf(t) == t[Len(t)].op = "else" /\ t[Len(t)].arg # Undefined

\* C1: a chain _if(c1).then(o1).elif(c2).then(o2)... closed by end() or
\* else(x) returns the outcome (or the producer's result) of the first
\* truthy condition, whatever the later conditions and outcomes are.
FirstTruthyWins ==
  LET L == Len(trace) IN
  (/\ L >= 3
   /\ ChainBody(trace, L - 1)
   /\ FirstTruthy(trace, L - 1) > 0
   /\ (EndsWithEnd(trace) \/ EndsWithElseOf(trace)))
  => /\ pc = "value"
     /\ cur = Expected(OutAt(trace, FirstTruthy(trace, L - 1)))

\* C1 witness: the second of two branches wins with a producer although a
\* fallback is given.
FirstTruthyWinsWitness ==
  /\ Len(trace) = 5
  /\ ChainBody(trace, 4)
  /\ FirstTruthy(trace, 4) = 2
  /\ IsFunction(OutAt(trace, 2))
  /\ EndsWithElseOf(trace)
  /\ pc = "value"
  /\ cur = Str("a")

\* C2: with no truthy condition and no fallback, end() returns null.
NoMatchReturnsNull ==
  LET L == Len(trace) IN
  (/\ L >= 3
   /\ ChainBody(trace, L - 1)
   /\ FirstTruthy(trace, L - 1) = 0
   /\ EndsWithEnd(trace))
  => /\ pc = "value"
     /\ cur = Null

\* C2 witness: two falsy branches, one carrying a producer, closed by end().
NoMatchReturnsNullWitness ==
  /\ Len(trace) = 5
  /\ ChainBody(trace, 4)
  /\ FirstTruthy(trace, 4) = 0
  /\ IsFunction(OutAt(trace, 1))
  /\ EndsWithEnd(trace)
  /\ pc = "value"
  /\ cur = Null

\* The chain ends with else().then(x).
EndsWithElseThen(t) ==
  /\ Len(t) >= 2
  /\ t[Len(t) - 1].op = "else"
  /\ t[Len(t) - 1].arg = Undefined
  /\ t[Len(t)].op = "then"

\* C3: with no truthy condition, a fallback x given as else(x) or as
\* else().then(x) is what the chain returns: x itself, or the result of
\* invoking x when x is a producer.
FallbackReturnsOutcome ==
  LET L == Len(trace) IN
  /\ (/\ L >= 3
      /\ ChainBody(trace, L - 1)
      /\ FirstTruthy(trace, L - 1) = 0
      /\ EndsWithElseOf(trace))
     => (pc = "value" /\ cur = Expected(trace[L].arg))
  /\ (/\ L >= 4
      /\ ChainBody(trace, L - 2)
      /\ FirstTruthy(trace, L - 2) = 0
      /\ EndsWithElseThen(trace))
     => (pc = "value" /\ cur = Expected(trace[L].arg))

\* The chain is closed: by end(), else(y) or else().then(y).
Closed(t) == EndsWithEnd(t) \/ EndsWithElseOf(t) \/ EndsWithElseThen(t)

\* C4: once a branch has won with value v, whatever calls follow, the
\* closed chain yields v.
ResolvedIsIdempotent ==
  \A m \in 2..(Len(trace) - 1) :
    (/\ ChainBody(trace, m)
     /\ FirstTruthy(trace, m) = m \div 2
     /\ Closed(trace))
    => (pc = "value" /\ cur = Expected(OutAt(trace, m \div 2)))

\* Number of times the function f was invoked.
Invocations(f) == Cardinality({i \in 1..Len(calls) : calls[i] = f})

\* The complete chain evaluations: a body of m calls closed by end(),
\* else(x) or else().then(x).
Complete(t, m) ==
  /\ ChainBody(t, m)
  /\ \/ Len(t) = m + 1 /\ (EndsWithEnd(t) \/ EndsWithElseOf(t))
     \/ Len(t) = m + 2 /\ EndsWithElseThen(t)

HasFallback(t) == EndsWithElseOf(t) \/ EndsWithElseThen(t)

\* The outcome of the winning branch: that of the first truthy condition,
\* else the fallback; undefined when there is neither.
Winner(t, m) ==
  IF FirstTruthy(t, m) > 0 THEN OutAt(t, FirstTruthy(t, m))
  ELSE IF HasFallback(t) THEN t[Len(t)].arg
  ELSE Undefined

Attached(t, m) ==
  {OutAt(t, i) : i \in 1..(m \div 2)} \cup (IF HasFallback(t) THEN {t[Len(t)].arg} ELSE {})

\* C5: in a complete chain evaluation the winning branch's producer is
\* invoked exactly once and every other attached producer never.
WinnerInvokedOnce ==
  \A m \in 2..Len(trace) :
    Complete(trace, m) =>
      \A f \in {o \in Attached(trace, m) : IsFunction(o)} :
        Invocations(f) = (IF f = Winner(trace, m) THEN 1 ELSE 0)

\* C6: on a Pending chain, else(x) returns what else().then(x) returns,
\* namely x or the result of the producer x, whatever the held condition.
ElseOfIsElseThen ==
  (pc = "chain" /\ heap[cur.id].cls = "IfElif") =>
    \A x \in Outcomes(Len(trace)) :
      LET a == Dispatch(heap, calls, cur.id, "else", x)
          e == Dispatch(heap, calls, cur.id, "else", Undefined)
          b == Dispatch(e.heap, e.calls, e.ret.id, "then", x)
      IN a.ret = b.ret /\ a.ret = Expected(x)

(***************************************************************************)
(* Running a whole chain expression from an empty heap.                    *)
(***************************************************************************)
NotStarted == [heap |-> <<>>, calls |-> <<>>, ret |-> Undefined, thrown |-> FALSE]

RunCall(s, e) ==
  IF e.op = "_if"
    THEN If(s.heap, s.calls, e.arg)
    ELSE IF s.thrown \/ s.ret.k # "obj" THEN s
    ELSE Dispatch(s.heap, s.calls, s.ret.id, e.op, e.arg)

RECURSIVE RunFrom(_, _, _)
RunFrom(s, t, j) == IF j > Len(t) THEN s ELSE RunFrom(RunCall(s, t[j]), t, j + 1)

RunTrace(t) == RunFrom(NotStarted, t, 1)

\* The chain expression t written with the given name at every branch point.
WithBranch(t, name) ==
  [j \in 1..Len(t) |-> IF t[j].op \in {"elif", "elseIf"} THEN Call(name, t[j].arg) ELSE t[j]]

\* C7: the chain written with elseIf at every branch point returns the same
\* value and invokes the same producers as the chain written with elif.
AliasEquivalence ==
  LET a == RunTrace(WithBranch(trace, "elif"))
      b == RunTrace(WithBranch(trace, "elseIf"))
  IN a.ret = b.ret /\ a.calls = b.calls /\ a.thrown = b.thrown /\ a.heap = b.heap

\* C7 witness: a closed chain with elseIf called on a Pending and on a
\* Resolved chain, whose elif form returns the same winning value.
AliasEquivalenceWitness ==
  /\ Len(trace) = 5
  /\ [j \in 1..5 |-> trace[j].op] = <<"_if", "elseIf", "then", "elseIf", "end">>
  /\ IsFunction(trace[3].arg)
  /\ pc = "value"
  /\ cur = Str("a")
  /\ RunTrace(WithBranch(trace, "elif")).ret = Str("a")
  /\ Len(RunTrace(WithBranch(trace, "elif")).calls) = 1

\* What end() returns on the chain's first object, which never resolves:
\* the no-match marker.
NoMatchMarker == IfElif_end(heap, calls, 1).ret

WonAndEnded(t) ==
  /\ Len(t) >= 3
  /\ ChainBody(t, Len(t) - 1)
  /\ FirstTruthy(t, Len(t) - 1) > 0
  /\ EndsWithEnd(t)

\* C8 as stated: what end() returns when a branch won differs from the
\* no-match marker, for every outcome value.
NoMatchDistinguishable ==
  WonAndEnded(trace) => (pc = "value" /\ cur # NoMatchMarker)

\* C8 amended: what end() returns when a branch won differs from the
\* no-match marker whenever the winning outcome value is not null; an outcome
\* of null is returned as null, the marker itself.
NoMatchDistinguishableUnlessNull ==
  LET v == Expected(OutAt(trace, FirstTruthy(trace, Len(trace) - 1))) IN
  WonAndEnded(trace) =>
    /\ pc = "value"
    /\ v # Null => cur # NoMatchMarker
    /\ v = Null => cur = NoMatchMarker

\* C8 witness: a branch won with the falsy value 0 and end() returned 0.
NoMatchDistinguishableWitness ==
  /\ WonAndEnded(trace)
  /\ pc = "value"
  /\ cur = Zero
  /\ cur # NoMatchMarker

\* The step is a then(..) call on a Pending chain holding a falsy condition.
ThenOnFalsy ==
  /\ pc = "chain"
  /\ heap[cur.id].cls = "IfElif"
  /\ ~Truthy(heap[cur.id].condition)
  /\ Len(trace') = Len(trace) + 1
  /\ trace'[Len(trace')].op = "then"

\* The last call was a then(..) that left the chain Pending, and the step is
\* a call of op.
AfterThenOnFalsy(op) ==
  /\ pc = "chain"
  /\ heap[cur.id].cls = "IfElif"
  /\ trace[Len(trace)].op = "then"
  /\ Len(trace') = Len(trace) + 1
  /\ trace'[Len(trace')].op = op

\* C10: then(o) on a Pending chain with a falsy condition returns the same
\* object, changes no object and invokes nothing; an end() right after it
\* returns null, and an elif(c) right after it gives a Pending chain holding c.
ThenOnFalsyIsNoop ==
  [][/\ ThenOnFalsy =>
          (cur' = cur /\ heap' = heap /\ calls' = calls /\ pc' = "chain")
     /\ AfterThenOnFalsy("end") => (pc' = "value" /\ cur' = Null)
     /\ AfterThenOnFalsy("elif") =>
          /\ pc' = "chain"
          /\ cur' # cur
          /\ heap'[cur'.id].cls = "IfElif"
          /\ heap'[cur'.id].condition = trace'[Len(trace')].arg
          /\ calls' = calls]_vars

\* C10 witness: then called twice in a row on a falsy Pending chain, with a
\* producer, and the chain is still the object _if returned.
ThenOnFalsyIsNoopWitness ==
  /\ Len(trace) = 3
  /\ trace[2].op = "then"
  /\ trace[3].op = "then"
  /\ IsFunction(trace[2].arg)
  /\ pc = "chain"
  /\ cur = Ref(1)
  /\ Len(heap) = 1
  /\ ~Truthy(heap[1].condition)
  /\ calls = <<>>

\* Every object already on the heap keeps its class, condition and result.
HeapFrozen == \A i \in 1..Len(heap) : Len(heap') >= i /\ heap'[i] = heap[i]

\* The chain value val reached by the calls t is what t yields when run alone.
AsAlone(val, t, p) ==
  t # <<>> =>
    LET r == RunTrace(t) IN
    /\ r.thrown = (p = "error")
    /\ IF val.k = "obj"
         THEN r.ret.k = "obj" /\ r.heap[r.ret.id] = heap[val.id]
         ELSE r.ret = val

\* C9: no call changes an object that was already returned, and each of two
\* continuations of one chain object yields what it yields alone, however
\* their calls are interleaved.
HistoryImmutable ==
  /\ [][HeapFrozen]_vars
  /\ [](AsAlone(cur, trace, pc) /\ AsAlone(kept.val, kept.trace, kept.pc))

\* C9 witness: two continuations of the object _if returned have both
\* finished, with different results.
HistoryImmutableWitness ==
  /\ kept # NoKept
  /\ Len(trace) >= 2
  /\ Len(kept.trace) >= 3
  /\ trace[1] = kept.trace[1]
  /\ trace[2] # kept.trace[2]
  /\ heap[1].cls = "IfElif"
  /\ pc = "value"
  /\ kept.pc = "value"
  /\ cur = Null
  /\ kept.val = Str("a")
  /\ Len(calls) = 1

\* The step is a call of op on the chain value cur.
StepIs(op) ==
  /\ pc = "chain"
  /\ Len(trace') = Len(trace) + 1
  /\ trace'[Len(trace')].op = op

\* C11: once the chain is Resolved, a passthrough call (then, elif, elseIf,
\* else(), else(x)) invokes nothing and leaves the stored outcome value as it
\* is, also when that value is itself callable: the chain object the call
\* returns holds the same value, and a value it returns is that value.
ResolvedValueIsFixed ==
  [][(/\ pc = "chain"
      /\ heap[cur.id].cls = "IfElifResult"
      /\ \E op \in {"then", "elif", "elseIf", "else"} : StepIs(op))
     => /\ calls' = calls
        /\ pc' # "error"
        /\ IF cur'.k = "obj"
             THEN heap'[cur'.id].result = heap[cur.id].result
             ELSE cur' = heap[cur.id].result]_vars

\* The step is then(p) on a Pending chain holding a truthy condition.
ThenResolves ==
  /\ StepIs("then")
  /\ heap[cur.id].cls = "IfElif"
  /\ Truthy(heap[cur.id].condition)

\* The step is else(p), p given, on a Pending chain holding a falsy condition.
ElseOfResolves ==
  /\ StepIs("else")
  /\ trace'[Len(trace')].arg # Undefined
  /\ heap[cur.id].cls = "IfElif"
  /\ ~Truthy(heap[cur.id].condition)

\* The step is the then(p) of else().then(p) in a chain where no condition
\* was truthy.
ElseThenResolves ==
  /\ StepIs("then")
  /\ Len(trace) >= 3
  /\ ChainBody(trace, Len(trace) - 1)
  /\ FirstTruthy(trace, Len(trace) - 1) = 0
  /\ trace[Len(trace)].op = "else"
  /\ trace[Len(trace)].arg = Undefined

\* C12: the winning producer runs inside the call that resolves the chain,
\* be it then(p) on the first truthy condition, else(p) or else().then(p),
\* so it has run when that call returns; end() invokes nothing.
WinnerRunsInResolvingCall ==
  [][/\ (ThenResolves \/ ElseOfResolves \/ ElseThenResolves) =>
          LET p == trace'[Len(trace')].arg IN
          calls' = (IF IsFunction(p) THEN Append(calls, p) ELSE calls)
     /\ StepIs("end") => calls' = calls]_vars

\* The chain is a body of m calls closed by end(), or by else().end().
EndedAfter(t, m) ==
  /\ ChainBody(t, m)
  /\ EndsWithEnd(t)
  /\ \/ Len(t) = m + 1
     \/ Len(t) = m + 2 /\ t[m + 1].op = "else" /\ t[m + 1].arg = Undefined

\* C14: end() yields the matched outcome value, or null when no condition
\* matched, on every chain object that has it; in particular else().end()
\* returns null when no condition matched.
EndYieldsOutcomeOrNull ==
  \A m \in 2..(Len(trace) - 1) :
    EndedAfter(trace, m) =>
      /\ pc = "value"
      /\ cur = (IF FirstTruthy(trace, m) > 0
                  THEN Expected(OutAt(trace, FirstTruthy(trace, m)))
                  ELSE Null)

\* C15: on a Pending chain, whatever condition it holds, end() returns null
\* and elif(c) / elseIf(c) return a new Pending chain holding c, invoking
\* nothing; a chain becomes Resolved only by then(..) on a Pending chain
\* holding a truthy condition.
OnlyThenResolves ==
  [][/\ (StepIs("end") /\ heap[cur.id].cls = "IfElif") =>
          (pc' = "value" /\ cur' = Null /\ heap' = heap /\ calls' = calls)
     /\ ((StepIs("elif") \/ StepIs("elseIf")) /\ heap[cur.id].cls = "IfElif") =>
          /\ pc' = "chain"
          /\ cur' = Ref(Len(heap) + 1)
          /\ Len(heap') = Len(heap) + 1
          /\ heap'[cur'.id].cls = "IfElif"
          /\ heap'[cur'.id].condition = trace'[Len(trace')].arg
          /\ calls' = calls
     /\ (/\ pc = "chain"
         /\ pc' = "chain"
         /\ heap[cur.id].cls = "IfElif"
         /\ heap'[cur'.id].cls = "IfElifResult") =>
          (StepIs("then") /\ Truthy(heap[cur.id].condition))]_vars

\* C15 witness: _if(true).elif(false).then(o).end() returned null, with o
\* a producer that was not invoked.
OnlyThenResolvesWitness ==
  /\ Len(trace) = 4
  /\ [j \in 1..4 |-> trace[j].op] = <<"_if", "elif", "then", "end">>
  /\ Truthy(trace[1].arg)
  /\ ~Truthy(trace[2].arg)
  /\ IsFunction(trace[3].arg)
  /\ pc = "value"
  /\ cur = Null
  /\ calls = <<>>

\* The calls of the chain that passed a failing producer.
FailingAt(t) ==
  {j \in 2..Len(t) : t[j].op \in {"then", "else"} /\ IsFunction(t[j].arg) /\ Throws(t[j].arg.v)}

TypeOK ==
  /\ pc \in {"start", "chain", "value", "error"}
  /\ pc = "chain" => cur.k = "obj" /\ cur.id \in 1..Len(heap)
====
